---------------------------- MODULE Spec2Model ----------------------------
(***************************************************************************)
(* A model of the two C demonstration libraries of the repository:         *)
(*   src/10_c_interop/n087_custom_c/c_src/mathlib.c   (mathlib)            *)
(*   src/10_c_interop/n088_translate_c/c_src/sample.c (translate sample)   *)
(*                                                                         *)
(* Each library function is a small state machine over the memory it       *)
(* touches: the caller's buffers, the function's locals and its program    *)
(* counter.  int32_t arithmetic keeps its width.  Signed overflow is       *)
(* undefined behaviour in C; the variable `build` names the outcome the    *)
(* build gives it: "wrap" (two's complement wraparound) or "trap" (the     *)
(* overflow check of a sanitizing build aborts the process).               *)
(***************************************************************************)
EXTENDS Integers, Sequences, FiniteSets, TLC

VARIABLES
    \* ---- the build (shared by every function with signed arithmetic)
    build,
    \* ---- string_copy (sample.c)
    dest, src, max_len,        \* the arguments: two pointers and a size_t
    destBuf, srcBuf,           \* the memory behind the caller's two buffers
    destBuf0,                  \* ghost: destBuf when the call started
    ci, cpc,                   \* the local i, and the position in the body
    written, readIdx,          \* ghost: dest indices written, src indices read
    \* ---- factorial (mathlib.c)
    bits, n, fi, result, fret, fpc,
    \* ---- reverse_string (mathlib.c)
    str, str0, rlen, ri, rpc,
    \* ---- array_double (mathlib.c) and double_array (sample.c), two callers
    mem, mem0, arr, fn, len, di, tmp, dpc,
    \* ---- apply_op (sample.c) and apply_operation (mathlib.c)
    a, b, op, afn, calls, aret, apc

buildVars == <<build>>
copyVars  == <<dest, src, max_len, destBuf, srcBuf, destBuf0, ci, cpc, written, readIdx>>
factVars  == <<bits, n, fi, result, fret, fpc>>
revVars   == <<str, str0, rlen, ri, rpc>>
dblVars   == <<mem, mem0, arr, fn, len, di, tmp, dpc>>
applyVars == <<a, b, op, afn, calls, aret, apc>>
vars      == <<buildVars, copyVars, factVars, revVars, dblVars, applyVars>>

notCopyVars  == <<buildVars, factVars, revVars, dblVars, applyVars>>
notFactVars  == <<copyVars, revVars, dblVars, applyVars>>
notRevVars   == <<buildVars, copyVars, factVars, dblVars, applyVars>>
notDblVars   == <<copyVars, factVars, revVars, applyVars>>
notApplyVars == <<buildVars, copyVars, factVars, revVars, dblVars>>

NULL == "NULL"

Min(x, y) == IF x <= y THEN x ELSE y

Builds == {"wrap", "trap"}

\* The first index of buf that holds a terminator.
FirstZero(buf) ==
    CHOOSE k \in DOMAIN buf : buf[k] = 0 /\ \A j \in DOMAIN buf : j < k => buf[j] # 0

-----------------------------------------------------------------------------
(* Bounds of the model. *)

\* Bytes are 0..MaxByte; 0 is the string terminator.
MaxByte == 2
\* Capacity of the buffer behind dest.
DestCap == 3
\* Capacity of the buffer behind src (its last byte is a terminator).
SrcCap == 3

Byte == 0..MaxByte

-----------------------------------------------------------------------------
(* Signed integers of a given width (int32_t has IntBits).  Every           *)
(* intermediate value stays inside the width: no formula computes 2^31.     *)

\* The width of int32_t.
IntBits == 32

IntMax(w) == 2 * (2 ^ (w - 2) - 1) + 1
IntMin(w) == -IntMax(w) - 1
IntRange(w) == IntMin(w)..IntMax(w)

\* x + y leaves the width.
AddOverflows(x, y, w) ==
    \/ y > 0 /\ x > IntMax(w) - y
    \/ y < 0 /\ x < IntMin(w) - y

\* x + y reduced modulo 2^w into the signed range.
WrapAdd(x, y, w) ==
    IF y > 0 /\ x > IntMax(w) - y THEN (x + IntMin(w)) + (y + IntMin(w))
    ELSE IF y < 0 /\ x < IntMin(w) - y THEN (x - IntMin(w)) + (y - IntMin(w))
    ELSE x + y

\* x - y reduced modulo 2^w into the signed range.
WrapSub(x, y, w) ==
    IF y < 0 /\ x > IntMax(w) + y THEN (x + IntMin(w)) - (y - IntMin(w))
    ELSE IF y > 0 /\ x < IntMin(w) + y THEN (x - IntMin(w)) - (y + IntMin(w))
    ELSE x - y

\* x * y reduced modulo 2^w into the signed range (double and add).
RECURSIVE WrapMul(_, _, _)
WrapMul(x, y, w) ==
    IF y = 0 THEN 0
    ELSE IF y = -1 THEN WrapSub(0, x, w)
    ELSE LET h == WrapMul(x, y \div 2, w)
             d == WrapAdd(h, h, w)
         IN  IF y % 2 = 1 THEN WrapAdd(d, x, w) ELSE d

CeilDiv(p, q) == (p + q - 1) \div q

\* x * y leaves the width.
MulOverflows(x, y, w) ==
    IF y = 0 THEN FALSE
    ELSE IF y > 0 THEN x > IntMax(w) \div y \/ x < CeilDiv(IntMin(w), y)
    ELSE IF y = -1 THEN x = IntMin(w)
    ELSE IF y = IntMin(w) THEN x \notin {0, 1}
    ELSE LET m == -y
             top == (IntMax(w) \div m) + (IF IntMax(w) % m = m - 1 THEN 1 ELSE 0)
         IN  x > top \/ x < CeilDiv(-IntMax(w), m)

-----------------------------------------------------------------------------
(* The functions not running in a specification stay idle. *)

IdleCopy ==
    /\ dest = NULL /\ src = NULL /\ max_len = 0
    /\ destBuf = <<>> /\ srcBuf = <<>> /\ destBuf0 = <<>>
    /\ ci = 0 /\ cpc = "idle" /\ written = {} /\ readIdx = {}

IdleFact ==
    /\ bits = 0 /\ n = 0 /\ fi = 0 /\ result = 0 /\ fret = 0 /\ fpc = "idle"

IdleRev ==
    /\ str = <<>> /\ str0 = <<>> /\ rlen = 0 /\ ri = 0 /\ rpc = "idle"

IdleDbl ==
    /\ mem = <<>> /\ mem0 = <<>> /\ arr = <<>> /\ fn = <<>> /\ len = <<>>
    /\ di = <<>> /\ tmp = <<>> /\ dpc = <<>>

IdleApply ==
    /\ a = 0 /\ b = 0 /\ op = NULL /\ afn = "idle" /\ calls = <<>>
    /\ aret = 0 /\ apc = "idle"

-----------------------------------------------------------------------------
(* string_length and string_copy (sample.c). *)

\* while (str[len]) len++;  A scan that leaves the buffer without meeting a
\* terminator reads out of bounds; -1 stands for that outcome.
RECURSIVE ScanLen(_, _)
ScanLen(buf, k) ==
    IF k \notin DOMAIN buf THEN -1
    ELSE IF buf[k] = 0 THEN k
    ELSE ScanLen(buf, k + 1)

\* size_t string_length(const char* str)
string_length(p, buf) == IF p = NULL THEN 0 ELSE ScanLen(buf, 0)

\* The loop limit off by one: i < max_len.
SizeLt(k, m) == k < m

\* i < max_len - 1 in size_t arithmetic: for m = 0 the right side is SIZE_MAX,
\* above every index of a buffer.
SizeLtMinus1(k, m) == IF m = 0 THEN TRUE ELSE k < m - 1

\* The guard without its max_len == 0 test.
GuardNoLenTest(d, s, m) == d = NULL \/ s = NULL

\* if (!dest || !src || max_len == 0) return;
CopyReturnsEarly(d, s, m) == d = NULL \/ s = NULL \/ m = 0

TerminatedBufs(cap) == {f \in [0..(cap - 1) -> Byte] : f[cap - 1] = 0}

InitCopy ==
    /\ dest \in {NULL, "D"}
    /\ src \in {NULL, "S"}
    /\ max_len \in 0..DestCap
    /\ destBuf \in [0..(DestCap - 1) -> Byte]
    /\ srcBuf \in TerminatedBufs(SrcCap)
    /\ destBuf0 = destBuf
    /\ ci = 0
    /\ cpc = "entry"
    /\ written = {}
    /\ readIdx = {}

\* if (!dest || !src || max_len == 0) return;  size_t i;  i = 0
CopyGuard ==
    /\ cpc = "entry"
    /\ IF CopyReturnsEarly(dest, src, max_len)
          THEN cpc' = "done"
          ELSE cpc' = "loop"
    /\ ci' = 0
    /\ UNCHANGED <<dest, src, max_len, destBuf, srcBuf, destBuf0, written, readIdx>>
    /\ UNCHANGED notCopyVars

\* for (...; i < max_len - 1 && src[i]; i++) dest[i] = src[i];
CopyLoop ==
    /\ cpc = "loop"
    /\ IF SizeLtMinus1(ci, max_len)
          THEN /\ readIdx' = readIdx \cup {ci}
               /\ IF srcBuf[ci] # 0
                     THEN /\ destBuf' = [destBuf EXCEPT ![ci] = srcBuf[ci]]
                          /\ written' = written \cup {ci}
                          /\ ci' = ci + 1
                          /\ cpc' = "loop"
                     ELSE /\ cpc' = "term"
                          /\ UNCHANGED <<destBuf, written, ci>>
          ELSE /\ cpc' = "term"
               /\ UNCHANGED <<destBuf, written, ci, readIdx>>
    /\ UNCHANGED <<dest, src, max_len, srcBuf, destBuf0>>
    /\ UNCHANGED notCopyVars

\* The terminator written one place late: dest[max_len - 1] = '\0'.
CopyTerminateAtEnd ==
    /\ cpc = "term"
    /\ destBuf' = [destBuf EXCEPT ![max_len - 1] = 0]
    /\ written' = written \cup {max_len - 1}
    /\ cpc' = "done"
    /\ UNCHANGED <<dest, src, max_len, srcBuf, destBuf0, ci, readIdx>>
    /\ UNCHANGED notCopyVars

\* dest[i] = '\0';
CopyTerminate ==
    /\ cpc = "term"
    /\ destBuf' = [destBuf EXCEPT ![ci] = 0]
    /\ written' = written \cup {ci}
    /\ cpc' = "done"
    /\ UNCHANGED <<dest, src, max_len, srcBuf, destBuf0, ci, readIdx>>
    /\ UNCHANGED notCopyVars

NextCopy == CopyGuard \/ CopyLoop \/ CopyTerminate

InitSpecCopy ==
    /\ build = "wrap"
    /\ InitCopy /\ IdleFact /\ IdleRev /\ IdleDbl /\ IdleApply

SpecCopy == InitSpecCopy /\ [][NextCopy]_vars

-----------------------------------------------------------------------------
(* factorial (mathlib.c).  `bits` is the width of int32_t in the run. *)

\* The largest argument followed at the full width of int32_t.
MaxN == 14

\* The width given to int32_t where the loop counter is followed over its
\* whole range, up to its overflow: 2^31 iterations are out of reach.
LoopBits == 5

\* i <= n
FactLoopTest(i, m) == i <= m

\* if (n <= 1) return 1;
FactBaseCase(m) == m <= 1

InitFact(w, args) ==
    /\ bits = w
    /\ n \in args
    /\ fi = 0
    /\ result = 0
    /\ fret = 0
    /\ fpc = "entry"

\* if (n <= 1) return 1;  int32_t result = 1;  i = 2
FactEntry ==
    /\ fpc = "entry"
    /\ IF FactBaseCase(n)
          THEN /\ fret' = 1
               /\ fpc' = "done"
               /\ UNCHANGED <<result, fi>>
          ELSE /\ result' = 1
               /\ fi' = 2
               /\ fpc' = "loop"
               /\ UNCHANGED fret
    /\ UNCHANGED <<bits, n, build>>
    /\ UNCHANGED notFactVars

\* for (...; i <= n; i++) result *= i;  return result;
\* One iteration: the test, the body, the increment.  An overflow of the
\* product or of the increment is undefined: the "trap" build aborts there,
\* the "wrap" build carries on with the value reduced modulo 2^bits.
FactLoop ==
    /\ fpc = "loop"
    /\ IF FactLoopTest(fi, n)
          THEN IF build = "trap" /\ (MulOverflows(result, fi, bits) \/ AddOverflows(fi, 1, bits))
                  THEN /\ fpc' = "trap"
                       /\ UNCHANGED <<result, fi, fret>>
                  ELSE /\ result' = WrapMul(result, fi, bits)
                       /\ fi' = WrapAdd(fi, 1, bits)
                       /\ fpc' = "loop"
                       /\ UNCHANGED fret
          ELSE /\ fret' = result
               /\ fpc' = "done"
               /\ UNCHANGED <<result, fi>>
    /\ UNCHANGED <<bits, n, build>>
    /\ UNCHANGED notFactVars

NextFact == FactEntry \/ FactLoop

FactArgs == {IntMin(IntBits), -1, 0, 1} \cup 2..MaxN

InitSpecFact ==
    /\ build \in Builds
    /\ InitFact(IntBits, FactArgs)
    /\ IdleCopy /\ IdleRev /\ IdleDbl /\ IdleApply

\* factorial called at the width of int32_t with arguments up to MaxN.
SpecFact == InitSpecFact /\ [][NextFact]_vars

InitSpecFactLoop ==
    /\ build \in Builds
    /\ InitFact(LoopBits, IntRange(LoopBits))
    /\ IdleCopy /\ IdleRev /\ IdleDbl /\ IdleApply

\* factorial called with every argument of the width, INT_MAX included.  The
\* call is synchronous: a call that can take a step takes it (weak fairness).
SpecFactLoop == InitSpecFactLoop /\ [][NextFact]_vars /\ WF_vars(NextFact)

-----------------------------------------------------------------------------
(* Claims about factorial. *)

\* 2 * 3 * ... * m reduced modulo 2^w into the signed range.
RECURSIVE ProductTo(_, _)
ProductTo(m, w) == IF m <= 1 THEN 1 ELSE WrapMul(ProductTo(m - 1, w), m, w)

\* C4: factorial(n) returns 1 for every n <= 1 (negative n included), and for
\* n >= 2 returns 2*3*...*n reduced modulo 2^32 as a signed 32-bit integer:
\* factorial(5) = 120, and for n >= 13 the wrapped value is returned
\* (factorial(13) = 1932053504) rather than an error.
C4_FactorialWraps ==
    /\ fpc # "trap"
    /\ fpc = "done" =>
          /\ fret = ProductTo(n, bits)
          /\ n <= 1 => fret = 1
          /\ n = 5 => fret = 120
          /\ n = 13 => fret = 1932053504

\* C5: every function terminates on every valid input; in particular
\* factorial(n) terminates for every signed n of the width, n = INT_MAX
\* included, where the signed counter i is compared with i <= n.
C5_FactorialTerminates == <>(fpc \in {"done", "trap"})


-----------------------------------------------------------------------------
(* reverse_string (mathlib.c). *)

\* Capacity of the buffer behind str.
StrCap == 4

\* strlen of <string.h>: the index of the first terminator.
strlen(buf) == ScanLen(buf, 0)

\* The loop over the whole string: i < len.
RevLoopTestFull(i, l) == i < l

\* i < len / 2
RevLoopTest(i, l) == i < l \div 2

\* The caller's precondition: the buffer holds a terminator.
InitRev ==
    /\ str \in {f \in [0..(StrCap - 1) -> Byte] : \E k \in DOMAIN f : f[k] = 0}
    /\ str0 = str
    /\ rlen = 0
    /\ ri = 0
    /\ rpc = "entry"

\* size_t len = strlen(str);  i = 0
RevStrlen ==
    /\ rpc = "entry"
    /\ rlen' = strlen(str)
    /\ ri' = 0
    /\ rpc' = "loop"
    /\ UNCHANGED <<str, str0>>
    /\ UNCHANGED notRevVars

\* for (...; i < len / 2; i++) { tmp = str[i]; str[i] = str[len-1-i]; str[len-1-i] = tmp; }
RevLoop ==
    /\ rpc = "loop"
    /\ IF RevLoopTest(ri, rlen)
          THEN /\ str' = [str EXCEPT ![ri] = str[rlen - 1 - ri],
                                     ![rlen - 1 - ri] = str[ri]]
               /\ ri' = ri + 1
               /\ rpc' = "loop"
          ELSE /\ rpc' = "done"
               /\ UNCHANGED <<str, ri>>
    /\ UNCHANGED <<str0, rlen>>
    /\ UNCHANGED notRevVars

NextRev == RevStrlen \/ RevLoop

InitSpecRev ==
    /\ build = "wrap"
    /\ InitRev /\ IdleCopy /\ IdleFact /\ IdleDbl /\ IdleApply

SpecRev == InitSpecRev /\ [][NextRev]_vars

-----------------------------------------------------------------------------
(* Claims about reverse_string. *)

\* C6: for a terminated string of length L, reverse_string leaves a string of
\* the same length L whose byte at i is the original byte at L-1-i for every
\* 0 <= i < L; the terminator at L and every byte after it are unchanged, and
\* a string of length 0 or 1 is left entirely unchanged.
C6_Reversed ==
    rpc = "done" =>
        LET L == FirstZero(str0) IN
        /\ FirstZero(str) = L
        /\ \A k \in 0..(L - 1) : str[k] = str0[L - 1 - k]
        /\ \A k \in DOMAIN str : k >= L => str[k] = str0[k]
        /\ L <= 1 => str = str0

\* A string of two different bytes has been reversed in a buffer that holds
\* a byte other than a terminator behind the string's terminator.
C6_Witness ==
    /\ rpc = "done"
    /\ FirstZero(str0) = 2
    /\ str0[0] # str0[1]
    /\ str0[StrCap - 1] # 0
    /\ str # str0


-----------------------------------------------------------------------------
(* array_double (mathlib.c) and double_array (sample.c), run by up to two   *)
(* callers.  arr[t] names the buffer caller t passes, fn[t] the function it *)
(* calls, len[t] its length argument.  The update arr[i] *= 2 is a read of  *)
(* arr[i] into tmp[t] followed by a write of the product.                   *)

\* Capacity of each caller's buffer.
ArrCap == 2

Callers == {1, 2}
BufNames == {"A", "B"}

\* Initial elements: the product of 1073741824 by 2 leaves int32_t.
Elems == {-3, 1, 1073741824}

Arrays == [0..(ArrCap - 1) -> Elems]

NoTrap == \A t \in Callers : dpc[t] # "trap"

\* The product written with the operands of an addition: tmp + 2.
TimesTwoAsPlusTwo(x) == WrapAdd(x, 2, IntBits)

\* arr[i] * 2 in a build that wraps.
TimesTwo(x) == WrapMul(x, 2, IntBits)

\* The write through a pointer every caller shares: the first buffer.
TargetFirst(t) == "A"

\* The buffer written: the caller's own argument arr.
Target(t) == arr[t]

\* The loop test that stops one element early: i + 1 < len.
DblLoopTestShort(k, l) == k + 1 < l

\* i < len
DblLoopTest(k, l) == k < l

\* Caller 2 is absent, works on its own buffer, or works on caller 1's.
InitDbl ==
    /\ \E x \in Arrays, y \in Arrays, l1 \in 0..ArrCap, l2 \in 0..ArrCap,
          f1 \in {"array_double", "double_array"},
          f2 \in {"array_double", "double_array"},
          scenario \in {"lone", "disjoint", "shared"} :
          /\ scenario = "lone" => y = x /\ l2 = 0 /\ f2 = f1
          /\ scenario = "shared" => y = x
          /\ mem = [A |-> x, B |-> y]
          /\ arr = [t \in Callers |->
                       IF t = 2 /\ scenario # "shared" THEN "B" ELSE "A"]
          /\ len = [t \in Callers |-> IF t = 1 THEN l1 ELSE l2]
          /\ fn = [t \in Callers |-> IF t = 1 THEN f1 ELSE f2]
          /\ dpc = [t \in Callers |->
                       IF t = 2 /\ scenario = "lone" THEN "none" ELSE "read"]
    /\ mem0 = mem
    /\ di = [t \in Callers |-> 0]
    /\ tmp = [t \in Callers |-> 0]

\* mathlib.c: for (size_t i = 0; i < len; i++) ... the read of arr[i]
ArrayDoubleRead(t) ==
    /\ NoTrap
    /\ fn[t] = "array_double"
    /\ dpc[t] = "read"
    /\ IF DblLoopTest(di[t], len[t])
          THEN /\ tmp' = [tmp EXCEPT ![t] = mem[arr[t]][di[t]]]
               /\ dpc' = [dpc EXCEPT ![t] = "write"]
          ELSE /\ dpc' = [dpc EXCEPT ![t] = "done"]
               /\ UNCHANGED tmp
    /\ UNCHANGED <<mem, mem0, arr, fn, len, di, build>>
    /\ UNCHANGED notDblVars

\* mathlib.c: arr[i] *= 2; the write of the product, then i++
ArrayDoubleWrite(t) ==
    /\ NoTrap
    /\ fn[t] = "array_double"
    /\ dpc[t] = "write"
    /\ IF build = "trap" /\ MulOverflows(tmp[t], 2, IntBits)
          THEN /\ dpc' = [dpc EXCEPT ![t] = "trap"]
               /\ UNCHANGED <<mem, di>>
          ELSE /\ mem' = [mem EXCEPT ![Target(t)][di[t]] = TimesTwo(tmp[t])]
               /\ di' = [di EXCEPT ![t] = di[t] + 1]
               /\ dpc' = [dpc EXCEPT ![t] = "read"]
    /\ UNCHANGED <<mem0, arr, fn, len, tmp, build>>
    /\ UNCHANGED notDblVars

\* sample.c: for (size_t i = 0; i < len; i++) ... the read of arr[i]
DoubleArrayRead(t) ==
    /\ NoTrap
    /\ fn[t] = "double_array"
    /\ dpc[t] = "read"
    /\ IF DblLoopTest(di[t], len[t])
          THEN /\ tmp' = [tmp EXCEPT ![t] = mem[arr[t]][di[t]]]
               /\ dpc' = [dpc EXCEPT ![t] = "write"]
          ELSE /\ dpc' = [dpc EXCEPT ![t] = "done"]
               /\ UNCHANGED tmp
    /\ UNCHANGED <<mem, mem0, arr, fn, len, di, build>>
    /\ UNCHANGED notDblVars

\* sample.c: arr[i] *= 2; the write of the product, then i++
DoubleArrayWrite(t) ==
    /\ NoTrap
    /\ fn[t] = "double_array"
    /\ dpc[t] = "write"
    /\ IF build = "trap" /\ MulOverflows(tmp[t], 2, IntBits)
          THEN /\ dpc' = [dpc EXCEPT ![t] = "trap"]
               /\ UNCHANGED <<mem, di>>
          ELSE /\ mem' = [mem EXCEPT ![Target(t)][di[t]] = TimesTwo(tmp[t])]
               /\ di' = [di EXCEPT ![t] = di[t] + 1]
               /\ dpc' = [dpc EXCEPT ![t] = "read"]
    /\ UNCHANGED <<mem0, arr, fn, len, tmp, build>>
    /\ UNCHANGED notDblVars

NextDbl ==
    \E t \in Callers :
        \/ ArrayDoubleRead(t)
        \/ ArrayDoubleWrite(t)
        \/ DoubleArrayRead(t)
        \/ DoubleArrayWrite(t)

InitSpecDbl ==
    /\ build \in Builds
    /\ InitDbl /\ IdleCopy /\ IdleFact /\ IdleRev /\ IdleApply

SpecDbl == InitSpecDbl /\ [][NextDbl]_vars

-----------------------------------------------------------------------------
(* Claims about array_double and double_array. *)

AllReturned == \A t \in Callers : dpc[t] \in {"done", "none"}
Lone == dpc[2] = "none"
Disjoint == dpc[2] # "none" /\ arr[1] # arr[2]
Shared == dpc[2] # "none" /\ arr[1] = arr[2]

\* A lone sequential array_double(buf, l): the elements below l doubled.
RECURSIVE SeqDouble(_, _, _)
SeqDouble(buf, l, k) ==
    IF k >= l THEN buf
    ELSE SeqDouble([buf EXCEPT ![k] = WrapMul(buf[k], 2, IntBits)], l, k + 1)

\* C7: array_double and double_array change the caller's buffer in place:
\* after the call each element below len is twice its original value modulo
\* 2^32 (signed), each element at or above len is unchanged, and len = 0
\* changes nothing; the two functions give the same buffer for the same input.
C7_DoubledInPlace ==
    /\ (Lone /\ dpc[1] = "done") =>
          /\ \A k \in 0..(ArrCap - 1) :
                mem.A[k] = IF k < len[1] THEN WrapMul(mem0.A[k], 2, IntBits)
                           ELSE mem0.A[k]
          /\ len[1] = 0 => mem.A = mem0.A
          /\ mem.B = mem0.B
    /\ (Disjoint /\ AllReturned /\ fn[1] # fn[2] /\ mem0.A = mem0.B /\ len[1] = len[2])
          => mem.A = mem.B

\* A lone call has returned having doubled a first element and left a last
\* element, at len, alone; the doubled element wrapped.
C7_Witness ==
    /\ Lone /\ dpc[1] = "done"
    /\ len[1] = ArrCap - 1
    /\ mem0.A[0] = 1073741824
    /\ mem.A[0] = -2147483647 - 1
    /\ mem.A[ArrCap - 1] = mem0.A[ArrCap - 1]

\* C8: two callers on disjoint buffers, each update split into a read and a
\* write: every interleaving ends with each buffer holding the result of a
\* lone sequential call on it, and at no point has a caller changed the
\* other's buffer.
C8_DisjointIndependent ==
    Disjoint =>
        /\ \A t \in Callers : mem[arr[t]] = SeqDouble(mem0[arr[t]], di[t], 0)
        /\ AllReturned =>
              \A t \in Callers : mem[arr[t]] = SeqDouble(mem0[arr[t]], len[t], 0)

\* Both callers have returned from full-length calls on different buffers.
C8_Witness ==
    /\ Disjoint /\ AllReturned
    /\ \A t \in Callers : len[t] = ArrCap /\ mem[arr[t]] # mem0[arr[t]]
    /\ mem0.A # mem0.B

\* C9: two callers on the same buffer, each update split into a read and a
\* write, race: an element both calls cover ends as 2 or 4 times its original
\* (modulo 2^32), and an interleaving that ends with 2 times, not the 4 times
\* of one call after the other, is reachable: the library takes no lock.
C9_SharedRace ==
    (Shared /\ AllReturned) =>
        \A k \in 0..(ArrCap - 1) :
            LET x == mem0.A[k]
                covered == Cardinality({t \in Callers : k < len[t]})
            IN  mem.A[k] \in
                    IF covered = 2 THEN {WrapMul(x, 2, IntBits), WrapMul(x, 4, IntBits)}
                    ELSE IF covered = 1 THEN {WrapMul(x, 2, IntBits)}
                    ELSE {x}

\* Both calls on one buffer have returned and an element both covered holds
\* twice its original value, which is not four times it: an update was lost.
C9_Witness ==
    /\ Shared /\ AllReturned
    /\ \E k \in 0..(ArrCap - 1) :
          /\ k < len[1] /\ k < len[2]
          /\ mem.A[k] = WrapMul(mem0.A[k], 2, IntBits)
          /\ mem.A[k] # WrapMul(mem0.A[k], 4, IntBits)


-----------------------------------------------------------------------------
(* apply_op (sample.c) and apply_operation (mathlib.c).  `calls` logs every *)
(* invocation made through the function pointer: the pointer, the arguments *)
(* passed and the value the callee gave back.                               *)

\* Arguments a and b range over -ArgMax..ArgMax.
ArgMax == 2

ArgRange == (-ArgMax)..ArgMax

\* The callbacks a caller may pass (BinaryOp), or none.
Ops == {NULL, "add", "sub", "first"}

\* What the caller's callback computes from its two parameters.
Callback(f, x, y) ==
    CASE f = "add" -> WrapAdd(x, y, IntBits)
      [] f = "sub" -> WrapSub(x, y, IntBits)
      [] f = "first" -> x
      [] OTHER -> 0

\* A guard that never fires.
OpNeverNull(f) == FALSE

\* if (!op)
OpIsNull(f) == f = NULL

\* The arguments passed in the other order: op(b, a).
OpArgsSwapped(x, y) == <<y, x>>

\* op(a, b)
OpArgs(x, y) == <<x, y>>

\* return op(a, b);  A call through a null pointer is undefined: the process
\* crashes, or control comes back with some value.
Invoke ==
    LET args == OpArgs(a, b) IN
    IF op = NULL
       THEN /\ calls' = Append(calls, [f |-> op, x |-> args[1], y |-> args[2], r |-> 0])
            /\ \/ apc' = "crash" /\ UNCHANGED aret
               \/ apc' = "done" /\ aret' \in ArgRange
       ELSE /\ calls' = Append(calls, [f |-> op, x |-> args[1], y |-> args[2],
                                       r |-> Callback(op, args[1], args[2])])
            /\ aret' = Callback(op, args[1], args[2])
            /\ apc' = "done"

InitApply ==
    /\ a \in ArgRange
    /\ b \in ArgRange
    /\ op \in Ops
    /\ afn \in {"apply_op", "apply_operation"}
    /\ calls = <<>>
    /\ aret = 0
    /\ apc = "entry"

\* sample.c: if (!op) return 0;  return op(a, b);
apply_op ==
    /\ afn = "apply_op"
    /\ apc = "entry"
    /\ IF OpIsNull(op)
          THEN /\ aret' = 0
               /\ apc' = "done"
               /\ UNCHANGED calls
          ELSE Invoke
    /\ UNCHANGED <<a, b, op, afn>>
    /\ UNCHANGED notApplyVars

\* mathlib.c: return op(a, b);
apply_operation ==
    /\ afn = "apply_operation"
    /\ apc = "entry"
    /\ Invoke
    /\ UNCHANGED <<a, b, op, afn>>
    /\ UNCHANGED notApplyVars

NextApply == apply_op \/ apply_operation

InitSpecApply ==
    /\ build = "wrap"
    /\ InitApply /\ IdleCopy /\ IdleFact /\ IdleRev /\ IdleDbl

SpecApply == InitSpecApply /\ [][NextApply]_vars

-----------------------------------------------------------------------------
(* Claims about apply_op and apply_operation. *)

\* C3: apply_op(a, b, op) returns 0 and makes no invocation when op is null;
\* when op is non-null it invokes op exactly once, with (a, b) in that order,
\* and returns op's result unchanged.  apply_operation has no such guard: it
\* invokes op whatever op is.
C3_NullGuard ==
    /\ (afn = "apply_op" /\ apc # "entry") =>
          /\ apc = "done"
          /\ IF op = NULL
                THEN aret = 0 /\ calls = <<>>
                ELSE /\ Len(calls) = 1
                     /\ calls[1].f = op /\ calls[1].x = a /\ calls[1].y = b
                     /\ aret = calls[1].r
    /\ (afn = "apply_operation" /\ apc # "entry") =>
          /\ Len(calls) = 1
          /\ calls[1].f = op /\ calls[1].x = a /\ calls[1].y = b
          /\ op # NULL => apc = "done" /\ aret = calls[1].r

\* apply_op has returned 0 from a null op with non-zero arguments.
C3_Witness ==
    /\ afn = "apply_op" /\ apc = "done" /\ op = NULL
    /\ a # 0 /\ b # 0 /\ a # b
    /\ aret = 0 /\ calls = <<>>


-----------------------------------------------------------------------------
(* Claims about string_copy and string_length. *)

CopyActs == dest # NULL /\ src # NULL /\ max_len >= 1

\* k = min(length of src up to its first terminator, max_len - 1)
CopyK == Min(FirstZero(srcBuf), max_len - 1)

\* C1: for non-null dest and src and max_len >= 1, string_copy writes only to
\* dest indices 0..k, k = min(length of src, max_len - 1); when it returns,
\* dest[0..k-1] = src[0..k-1], dest[k] is the terminator, and every byte of
\* dest above k (so every index >= max_len) is as it was before the call.
C1_BoundedCopy ==
    CopyActs =>
        /\ written \subseteq 0..CopyK
        /\ cpc = "done" =>
              /\ \A j \in 0..(CopyK - 1) : destBuf[j] = srcBuf[j]
              /\ destBuf[CopyK] = 0
              /\ \A j \in DOMAIN destBuf : j > CopyK => destBuf[j] = destBuf0[j]

\* A truncating copy has returned: src is longer than max_len - 1, and dest
\* has bytes at and above max_len that were not terminators.
C1_Witness ==
    /\ CopyActs /\ cpc = "done"
    /\ FirstZero(srcBuf) > max_len - 1
    /\ max_len >= 2 /\ max_len < DestCap
    /\ \A j \in DOMAIN destBuf0 : destBuf0[j] # 0
    /\ written = 0..(max_len - 1)

\* C2: when dest is null, src is null or max_len is 0, string_copy returns
\* from its guard: the loop is never entered (so max_len - 1 is never a loop
\* limit), no byte of src is read and no byte of dest is written or changed.
C2_GuardNoOp ==
    (dest = NULL \/ src = NULL \/ max_len = 0) =>
        /\ cpc \in {"entry", "done"}
        /\ readIdx = {}
        /\ written = {}
        /\ destBuf = destBuf0

\* The max_len = 0 call has returned, with a non-empty src and both pointers set.
C2_Witness ==
    /\ cpc = "done" /\ max_len = 0 /\ dest # NULL /\ src # NULL
    /\ srcBuf[0] # 0 /\ destBuf[0] # 0

\* C10: for non-null dest and src and max_len >= 1, string_length(dest) after
\* string_copy(dest, src, max_len) is min(string_length(src), max_len - 1),
\* whatever dest held before; the copy is terminated inside the first max_len
\* bytes and is a prefix of src.
C10_LengthAfterCopy ==
    (CopyActs /\ cpc = "done") =>
        LET l == string_length(dest, destBuf) IN
        /\ l = Min(string_length(src, srcBuf), max_len - 1)
        /\ l < max_len
        /\ \A j \in 0..(l - 1) : destBuf[j] = srcBuf[j]

\* A copy has returned into a dest that held no terminator at all, from a src
\* shorter than max_len - 1.
C10_Witness ==
    /\ CopyActs /\ cpc = "done"
    /\ \A j \in DOMAIN destBuf0 : destBuf0[j] # 0
    /\ string_length(src, srcBuf) = 1
    /\ max_len = DestCap
    /\ string_length(dest, destBuf) = 1

=============================================================================
